---- MODULE Spec2Model ----
(***************************************************************************)
(* Model of quinn-proto/src/cid_generator.rs: the ConnectionIdGenerator    *)
(* trait, RandomConnectionIdGenerator and HashedConnectionIdGenerator.     *)
(*                                                                         *)
(* A byte is an integer in 0..255.  A ConnectionId and every byte slice is *)
(* a sequence of bytes.  A u64 is a function from limb index 0..7 to a     *)
(* byte, limb j carrying weight 256^j, so that 64-bit wrapping arithmetic  *)
(* stays inside the integers the model checker can represent.              *)
(* Option<T> is a sequence of length at most one: None is <<>>.            *)
(***************************************************************************)
EXTENDS Integers, Sequences, FiniteSets, TLC

\* ---------------------------------------------------------------- bounds
MaxSeed == 1        \* outcomes of the random source are numbered 0..MaxSeed
MaxDuration == 2    \* durations passed to set_lifetime are 1..MaxDuration
MaxIssued == 1      \* hashed CIDs the callers keep hold of
MaxNewLen == 21     \* lengths passed to RandomConnectionIdGenerator::new

\* ------------------------------------------------------- program constants
MAX_CID_SIZE == 20
NONCE_LEN == 3
SIGNATURE_LEN == 8 - NONCE_LEN
DEFAULT_CID_LEN == 8

None == <<>>
Some(d) == <<d>>

Limbs == 0..7
Durations == 1..MaxDuration
Seeds == 0..MaxSeed

\* ------------------------------------------------------------ u64 values
\* The u64 whose little-endian bytes are the sequence s (zero-extended).
\* The u64 with the given limbs, each limb computed once.
U64(f) ==
    (0 :> f[0]) @@ (1 :> f[1]) @@ (2 :> f[2]) @@ (3 :> f[3]) @@
    (4 :> f[4]) @@ (5 :> f[5]) @@ (6 :> f[6]) @@ (7 :> f[7])

\* The byte sequence with the given elements, each element computed once.
Bytes(f) == SubSeq(f, 1, Len(f))

FromNeBytes(s) == U64([j \in Limbs |-> IF j < Len(s) THEN s[j + 1] ELSE 0])

\* u64::to_le_bytes: byte i (1-based) of the array is limb i-1.
to_le_bytes(x) == Bytes([i \in 1..8 |-> x[i - 1]])

\* Bit of weight w of a XOR b, in place.
XorBit(a, b, w) == (((a \div w) + (b \div w)) % 2) * w

XorByte(a, b) ==
    IF b = 0 THEN a
    ELSE IF a = 0 THEN b
    ELSE XorBit(a, b, 1) + XorBit(a, b, 2) + XorBit(a, b, 4) + XorBit(a, b, 8)
         + XorBit(a, b, 16) + XorBit(a, b, 32) + XorBit(a, b, 64)
         + XorBit(a, b, 128)

bitxor(a, b) == U64([j \in Limbs |-> XorByte(a[j], b[j])])

rotate_left5(h) ==
    U64([j \in Limbs |-> ((h[j] * 32) % 256) + (h[(j + 7) % 8] \div 8)])

\* Column k of the schoolbook product: the sum of a[i] * b[k - i].
ColSum(a, b, k) ==
    CASE k = 0 -> a[0] * b[0]
      [] k = 1 -> a[0] * b[1] + a[1] * b[0]
      [] k = 2 -> a[0] * b[2] + a[1] * b[1] + a[2] * b[0]
      [] k = 3 -> a[0] * b[3] + a[1] * b[2] + a[2] * b[1] + a[3] * b[0]
      [] k = 4 -> a[0] * b[4] + a[1] * b[3] + a[2] * b[2] + a[3] * b[1]
                  + a[4] * b[0]
      [] k = 5 -> a[0] * b[5] + a[1] * b[4] + a[2] * b[3] + a[3] * b[2]
                  + a[4] * b[1] + a[5] * b[0]
      [] k = 6 -> a[0] * b[6] + a[1] * b[5] + a[2] * b[4] + a[3] * b[3]
                  + a[4] * b[2] + a[5] * b[1] + a[6] * b[0]
      [] OTHER -> a[0] * b[7] + a[1] * b[6] + a[2] * b[5] + a[3] * b[4]
                  + a[4] * b[3] + a[5] * b[2] + a[6] * b[1] + a[7] * b[0]

\* Limbs k..7 of the product, given column k's sum s, carry included.
RECURSIVE MulLimbs(_, _, _, _)
MulLimbs(a, b, k, s) ==
    IF k = 7 THEN <<s % 256>>
    ELSE <<s % 256>>
         \o MulLimbs(a, b, k + 1, (s \div 256) + ColSum(a, b, k + 1))

FromLimbs(m) == U64([k \in Limbs |-> m[k + 1]])

wrapping_mul(a, b) == FromLimbs(MulLimbs(a, b, 0, ColSum(a, b, 0)))

\* ------------------------------------------------- rustc_hash::FxHasher
\* The hasher of rustc-hash 1.x on a 64-bit little-endian target: write_u64
\* adds the word, write adds the slice in chunks of 8, 4, 2 and 1 bytes, and
\* adding a word is hash = (hash.rotate_left(5) ^ word).wrapping_mul(SEED).
\* 0x51_7c_c1_b7_27_22_0a_95
FX_SEED == FromNeBytes(<<149, 10, 34, 39, 183, 193, 124, 81>>)

FxHasher_default == U64([j \in Limbs |-> 0])

add_to_hash(h, i) == wrapping_mul(bitxor(rotate_left5(h), i), FX_SEED)

write_u64(h, i) == add_to_hash(h, i)

Tail_from(s, n) == SubSeq(s, n + 1, Len(s))

RECURSIVE write(_, _)
write(h, bytes) ==
    IF Len(bytes) >= 8
    THEN write(add_to_hash(h, FromNeBytes(SubSeq(bytes, 1, 8))),
               Tail_from(bytes, 8))
    ELSE LET h4 == IF Len(bytes) >= 4
                   THEN add_to_hash(h, FromNeBytes(SubSeq(bytes, 1, 4)))
                   ELSE h
             b4 == IF Len(bytes) >= 4 THEN Tail_from(bytes, 4) ELSE bytes
             h2 == IF Len(b4) >= 2
                   THEN add_to_hash(h4, FromNeBytes(SubSeq(b4, 1, 2)))
                   ELSE h4
             b2 == IF Len(b4) >= 2 THEN Tail_from(b4, 2) ELSE b4
         IN  IF Len(b2) >= 1
             THEN add_to_hash(h2, FromNeBytes(SubSeq(b2, 1, 1)))
             ELSE h2

finish(h) == h

\* hasher.write_u64(self.key); hasher.write(nonce); hasher.finish()
KeyedHash(key, nonce) == finish(write(write_u64(FxHasher_default, key), nonce))


\* --------------------------------------------------- secure random source
\* Byte i of outcome number seed of rand::thread_rng().
RandByte(seed, i) ==
    CASE seed = 0 -> 0
      [] seed = 2 -> 255
      [] OTHER -> (seed * 73 + i * 151) % 256

\* RngCore::fill_bytes over a slice of n bytes.
fill_bytes(seed, n) == Bytes([i \in 1..n |-> RandByte(seed, i)])

\* 64-bit keys the generators are built with (0x1234567890abcdef, 0x5678...).
Keys == { FromNeBytes(<<239, 205, 171, 144, 120, 86, 52, 18>>),
          FromNeBytes(<<120, 86, 52, 18, 239, 205, 171, 144>>) }

\* ------------------------------------------- RandomConnectionIdGenerator
Random_default == [cid_len |-> DEFAULT_CID_LEN, lifetime |-> None]

\* The generators that exist after new(cid_len): none if the assertion fails.
Random_new_unchecked(cid_len, dbg) ==
    <<[Random_default EXCEPT !.cid_len = cid_len]>>

Random_new(cid_len, dbg) ==
    IF dbg /\ ~(cid_len <= MAX_CID_SIZE)
    THEN <<>>
    ELSE <<[Random_default EXCEPT !.cid_len = cid_len]>>

Random_set_lifetime_once(g, d) ==
    IF g.lifetime = None THEN [g EXCEPT !.lifetime = Some(d)] ELSE g

Random_set_lifetime(g, d) == [g EXCEPT !.lifetime = Some(d)]

Random_generate_cid_whole(g, seed) ==
    IF g.cid_len > MAX_CID_SIZE
    THEN [res |-> "Panic", rand |-> <<>>, cid |-> <<>>]
    ELSE LET bytes_arr == Bytes([i \in 1..MAX_CID_SIZE |->
                              IF i <= g.cid_len THEN RandByte(seed, i) ELSE 0])
         IN  [res |-> "Ok", rand |-> fill_bytes(seed, g.cid_len),
              cid |-> bytes_arr]

\* bytes_arr[..self.cid_len] panics when cid_len exceeds the array length.
Random_generate_cid(g, seed) ==
    IF g.cid_len > MAX_CID_SIZE
    THEN [res |-> "Panic", rand |-> <<>>, cid |-> <<>>]
    ELSE LET bytes_arr == Bytes([i \in 1..MAX_CID_SIZE |->
                              IF i <= g.cid_len THEN RandByte(seed, i) ELSE 0])
         IN  [res |-> "Ok", rand |-> fill_bytes(seed, g.cid_len),
              cid |-> SubSeq(bytes_arr, 1, g.cid_len)]

Random_validate_len(g, cid) == IF Len(cid) = g.cid_len THEN "Ok" ELSE "Err"

\* The trait's default validate, which RandomConnectionIdGenerator inherits.
Random_validate(g, cid) == "Ok"

Random_cid_len(g) == g.cid_len

Random_cid_lifetime(g) == g.lifetime

\* ------------------------------------------- HashedConnectionIdGenerator
from_key(key) == [key |-> key, lifetime |-> None]

\* new(): from_key with a key drawn from the random source.
Hashed_new(key) == from_key(key)

Hashed_set_lifetime(g, d) == [g EXCEPT !.lifetime = Some(d)]

to_be_bytes(x) == Bytes([i \in 1..8 |-> x[8 - i]])

Hashed_generate_cid_be(g, seed) ==
    LET zeroed == Bytes([i \in 1..(NONCE_LEN + SIGNATURE_LEN) |-> 0])
        nonce == fill_bytes(seed, NONCE_LEN)
        filled == Bytes([i \in 1..(NONCE_LEN + SIGNATURE_LEN) |->
                      IF i <= NONCE_LEN THEN nonce[i] ELSE zeroed[i]])
        hash == KeyedHash(g.key, SubSeq(filled, 1, NONCE_LEN))
        sig == SubSeq(to_be_bytes(hash), 1, SIGNATURE_LEN)
        bytes_arr == Bytes([i \in 1..(NONCE_LEN + SIGNATURE_LEN) |->
                         IF i <= NONCE_LEN THEN filled[i]
                         ELSE sig[i - NONCE_LEN]])
    IN  [res |-> "Ok", rand |-> nonce, cid |-> bytes_arr]

Hashed_generate_cid(g, seed) ==
    LET zeroed == Bytes([i \in 1..(NONCE_LEN + SIGNATURE_LEN) |-> 0])
        nonce == fill_bytes(seed, NONCE_LEN)
        filled == Bytes([i \in 1..(NONCE_LEN + SIGNATURE_LEN) |->
                      IF i <= NONCE_LEN THEN nonce[i] ELSE zeroed[i]])
        hash == KeyedHash(g.key, SubSeq(filled, 1, NONCE_LEN))
        sig == SubSeq(to_le_bytes(hash), 1, SIGNATURE_LEN)
        bytes_arr == Bytes([i \in 1..(NONCE_LEN + SIGNATURE_LEN) |->
                         IF i <= NONCE_LEN THEN filled[i]
                         ELSE sig[i - NONCE_LEN]])
    IN  [res |-> "Ok", rand |-> nonce, cid |-> bytes_arr]

\* Variant splitting one byte too late.
Hashed_validate_split4(g, cid) ==
    IF Len(cid) < NONCE_LEN + 1
    THEN "Panic"
    ELSE LET nonce == SubSeq(cid, 1, NONCE_LEN + 1)
             signature == Tail_from(cid, NONCE_LEN + 1)
             expected == to_le_bytes(KeyedHash(g.key, nonce))
         IN  IF SubSeq(expected, 1, SIGNATURE_LEN) = signature
             THEN "Ok" ELSE "Err"

\* Variant feeding the configured lifetime to the hasher as well.
Hashed_validate_lifetime(g, cid) ==
    IF Len(cid) < NONCE_LEN
    THEN "Panic"
    ELSE LET nonce == SubSeq(cid, 1, NONCE_LEN)
             signature == Tail_from(cid, NONCE_LEN)
             expected == to_le_bytes(KeyedHash(g.key, nonce \o g.lifetime))
         IN  IF SubSeq(expected, 1, SIGNATURE_LEN) = signature
             THEN "Ok" ELSE "Err"

\* Variant comparing only the bytes both slices have before the last one.
Hashed_validate_prefix(g, cid) ==
    IF Len(cid) < NONCE_LEN
    THEN "Panic"
    ELSE LET nonce == SubSeq(cid, 1, NONCE_LEN)
             signature == Tail_from(cid, NONCE_LEN)
             expected == to_le_bytes(KeyedHash(g.key, nonce))
             n == IF Len(signature) < SIGNATURE_LEN - 1
                  THEN Len(signature) ELSE SIGNATURE_LEN - 1
         IN  IF Len(signature) = SIGNATURE_LEN
                /\ SubSeq(expected, 1, n) = SubSeq(signature, 1, n)
             THEN "Ok" ELSE "Err"

\* cid.split_at(NONCE_LEN) panics when the slice is shorter than NONCE_LEN;
\* slice equality is false for slices of different lengths.
Hashed_validate(g, cid) ==
    IF Len(cid) < NONCE_LEN
    THEN "Panic"
    ELSE LET nonce == SubSeq(cid, 1, NONCE_LEN)
             signature == Tail_from(cid, NONCE_LEN)
             expected == to_le_bytes(KeyedHash(g.key, nonce))
         IN  IF SubSeq(expected, 1, SIGNATURE_LEN) = signature
             THEN "Ok" ELSE "Err"

Hashed_cid_len(g) == NONCE_LEN + SIGNATURE_LEN

Hashed_cid_lifetime(g) == g.lifetime

\* ================================================================= state
VARIABLES
    debug_assertions,  \* whether the build keeps debug_assert! checks
    rgens,             \* the RandomConnectionIdGenerator instances that exist
    hgens,             \* the HashedConnectionIdGenerator instances that exist
    issued,            \* hashed CIDs the callers hold: [by: instance, cid]
    built,             \* how the random generator was requested: [by, n]
    lastSet,           \* per instance, the argument of the last set_lifetime
    ret,               \* the last call: operation, instance, inputs, result
    panicked           \* the calling thread has panicked

vars == <<debug_assertions, rgens, hgens, issued, built, lastSet, ret, panicked>>

Call(op, inst, d, rand, cand, out, res) ==
    [op |-> op, inst |-> inst, d |-> d, rand |-> rand, cand |-> cand,
     out |-> out, res |-> res]

\* ------------------------------------------------------------------ Init
InitRandomDefault ==
    /\ rgens = <<Random_default>>
    /\ hgens = <<>>
    /\ built = [by |-> "default", n |-> DEFAULT_CID_LEN]
    /\ lastSet = <<None>>
    /\ ret = Call("default", 1, None, <<>>, <<>>, <<>>, "Ok")
    /\ panicked = FALSE

InitRandomNew(n) ==
    /\ rgens = Random_new(n, debug_assertions)
    /\ hgens = <<>>
    /\ built = [by |-> "new", n |-> n]
    /\ lastSet = [i \in DOMAIN rgens |-> None]
    /\ ret = Call("new", 1, None, <<>>, <<>>, <<>>,
                  IF rgens = <<>> THEN "Panic" ELSE "Ok")
    /\ panicked = (rgens = <<>>)

InitHashed(k1, k2) ==
    /\ rgens = <<>>
    /\ hgens = <<Hashed_new(k1), from_key(k2)>>
    /\ built = [by |-> "from_key", n |-> NONCE_LEN + SIGNATURE_LEN]
    /\ lastSet = <<None, None>>
    /\ ret = Call("from_key", 2, None, <<>>, <<>>, <<>>, "Ok")
    /\ panicked = FALSE

\* debug_assertions is read by RandomConnectionIdGenerator::new only.
Init ==
    /\ issued = {}
    /\ \/ debug_assertions = FALSE /\ InitRandomDefault
       \/ debug_assertions \in BOOLEAN /\ \E n \in 0..MaxNewLen : InitRandomNew(n)
       \/ debug_assertions = FALSE /\ \E k1 \in Keys, k2 \in Keys : InitHashed(k1, k2)

\* ------------------------------------------------ candidate CIDs on input
Pow2(b) == <<1, 2, 4, 8, 16, 32, 64, 128>>[b + 1]

FlipBit(c, pos, b) == [c EXCEPT ![pos] = XorByte(c[pos], Pow2(b))]

Zeros(n) == Bytes([i \in 1..n |-> 0])

ArbitraryCids == { fill_bytes(n % (MaxSeed + 1), n) : n \in 0..MAX_CID_SIZE }

HeldCids == { h.cid : h \in issued }

Candidates ==
    ArbitraryCids
    \cup HeldCids
    \cup { FlipBit(c, p, b) : c \in HeldCids,
                              p \in (NONCE_LEN + 1)..(NONCE_LEN + SIGNATURE_LEN),
                              b \in 0..7 }
    \cup { SubSeq(c, 1, n) : c \in HeldCids, n \in 0..(NONCE_LEN + SIGNATURE_LEN) }
    \cup { c \o Zeros(n) : c \in HeldCids, n \in {1, MAX_CID_SIZE - 8} }

\* --------------------------------------------------------------- actions
Idle == Call("idle", 0, None, <<>>, <<>>, <<>>, "Ok")

\* The caller has taken the result of its last call.
Returned == ret = Idle

\* The caller takes the result of the call it made and carries on.
Return ==
    /\ ~panicked /\ ~Returned
    /\ ret' = Idle
    /\ UNCHANGED <<debug_assertions, rgens, hgens, issued, built, lastSet, panicked>>

RandomSetLifetime ==
    /\ ~panicked /\ Returned
    /\ \E i \in DOMAIN rgens, d \in Durations :
        /\ rgens' = [rgens EXCEPT ![i] = Random_set_lifetime(rgens[i], d)]
        /\ lastSet' = [lastSet EXCEPT ![i] = Some(d)]
        /\ ret' = Call("set_lifetime", i, Some(d), <<>>, <<>>, <<>>, "Ok")
    /\ UNCHANGED <<debug_assertions, hgens, issued, built, panicked>>

RandomGenerateCid ==
    /\ ~panicked /\ Returned
    /\ \E i \in DOMAIN rgens, seed \in Seeds :
        LET r == Random_generate_cid(rgens[i], seed)
        IN  ret' = Call("generate_cid", i, None, r.rand, <<>>, r.cid, r.res)
    /\ panicked' = (ret'.res = "Panic")
    /\ UNCHANGED <<debug_assertions, rgens, hgens, issued, built, lastSet>>

RandomValidate ==
    /\ ~panicked /\ Returned
    /\ rgens # <<>>
    /\ \E i \in DOMAIN rgens, cid \in Candidates :
        ret' = Call("validate", i, None, <<>>, cid, <<>>,
                    Random_validate(rgens[i], cid))
    /\ panicked' = (ret'.res = "Panic")
    /\ UNCHANGED <<debug_assertions, rgens, hgens, issued, built, lastSet>>

HashedSetLifetime ==
    /\ ~panicked /\ Returned
    /\ \E i \in DOMAIN hgens, d \in Durations :
        /\ hgens' = [hgens EXCEPT ![i] = Hashed_set_lifetime(hgens[i], d)]
        /\ lastSet' = [lastSet EXCEPT ![i] = Some(d)]
        /\ ret' = Call("set_lifetime", i, Some(d), <<>>, <<>>, <<>>, "Ok")
    /\ UNCHANGED <<debug_assertions, rgens, issued, built, panicked>>

\* The callers keep the CID they are given while they hold fewer than
\* MaxIssued, and discard it otherwise.
HashedGenerateCid ==
    /\ ~panicked /\ Returned
    /\ \E i \in DOMAIN hgens, seed \in Seeds :
        LET r == Hashed_generate_cid(hgens[i], seed)
        IN  /\ ret' = Call("generate_cid", i, None, r.rand, <<>>, r.cid, r.res)
            /\ issued' = IF Cardinality(issued) < MaxIssued
                         THEN issued \cup {[by |-> i, cid |-> ret'.out]}
                         ELSE issued
    /\ UNCHANGED <<debug_assertions, rgens, hgens, built, lastSet, panicked>>

HashedValidate ==
    /\ ~panicked /\ Returned
    /\ hgens # <<>>
    /\ \E i \in DOMAIN hgens, cid \in Candidates :
        ret' = Call("validate", i, None, <<>>, cid, <<>>,
                    Hashed_validate(hgens[i], cid))
    /\ panicked' = (ret'.res = "Panic")
    /\ UNCHANGED <<debug_assertions, rgens, hgens, issued, built, lastSet>>

Next ==
    \/ RandomSetLifetime
    \/ RandomGenerateCid
    \/ RandomValidate
    \/ HashedSetLifetime
    \/ HashedGenerateCid
    \/ HashedValidate
    \/ Return

Spec == Init /\ [][Next]_vars

\* ================================================================ claims
RandomCall(op) == rgens # <<>> /\ ret.op = op

HashedCall(op) == hgens # <<>> /\ ret.op = op

\* The 5 low-order bytes of a u64, least significant first.
LowOrder5(x) == <<x[0], x[1], x[2], x[3], x[4]>>

\* The candidate of the last validate call was issued by instance i.
CandIssuedBy(i) == [by |-> i, cid |-> ret.cand] \in issued

\* C1: validate of a hashed generator accepts every CID that the same
\* instance issued, whatever generate_cid and set_lifetime calls came between.
C1_NoFalseNegative ==
    (HashedCall("validate") /\ CandIssuedBy(ret.inst)) => ret.res = "Ok"

C1_Witness ==
    /\ HashedCall("validate") /\ CandIssuedBy(ret.inst)
    /\ ret.res = "Ok"
    /\ lastSet[ret.inst] # None
    /\ Cardinality(issued) = MaxIssued

\* C2: a random generator built with new(L), 1 <= L <= 20, reports cid_len L
\* after any calls, and every CID it generates has exactly L bytes.
C2_RandomLengthFixed ==
    (rgens # <<>> /\ built.by = "new" /\ built.n \in 1..MAX_CID_SIZE) =>
        /\ Random_cid_len(rgens[1]) = built.n
        /\ ret.op = "generate_cid" =>
              (ret.res = "Ok" /\ Len(ret.out) = built.n)

C2_Witness ==
    /\ RandomCall("generate_cid")
    /\ built.by = "new" /\ built.n = MAX_CID_SIZE
    /\ Len(ret.out) = MAX_CID_SIZE
    /\ lastSet[1] # None

\* C3: validate of a hashed generator ends in Ok or Err(InvalidCid) for every
\* ConnectionId of 0 to 20 bytes; it never aborts.
C3_ValidateTwoOutcomes ==
    HashedCall("validate") => ret.res \in {"Ok", "Err"}

\* C4: a CID issued by one hashed generator is accepted by another hashed
\* generator holding the same key, whatever lifetimes either was given.
C4_SameKeyAccepts ==
    HashedCall("validate") =>
        \A h \in issued :
            (/\ h.by # ret.inst
             /\ h.cid = ret.cand
             /\ hgens[h.by].key = hgens[ret.inst].key) => ret.res = "Ok"

C4_Witness ==
    /\ HashedCall("validate")
    /\ ret.res = "Ok"
    /\ lastSet[1] # lastSet[2]
    /\ \E h \in issued : /\ h.by # ret.inst
                         /\ h.cid = ret.cand
                         /\ hgens[h.by].key = hgens[ret.inst].key
    /\ ~CandIssuedBy(ret.inst)

\* C5: cid_lifetime() of either generator is Some(d) for the d of the last
\* set_lifetime call on it and None if there was none; no other call changes it.
C5_LifetimeIsLastSet ==
    /\ \A i \in DOMAIN rgens : Random_cid_lifetime(rgens[i]) = lastSet[i]
    /\ \A i \in DOMAIN hgens : Hashed_cid_lifetime(hgens[i]) = lastSet[i]

C5_Witness ==
    /\ RandomCall("generate_cid")
    /\ Random_cid_lifetime(rgens[1]) = Some(MaxDuration)

\* C6: validate of a random generator returns Ok for every ConnectionId,
\* whatever its bytes and length.
C6_RandomValidateAccepts ==
    RandomCall("validate") => ret.res = "Ok"

C6_Witness ==
    /\ RandomCall("validate")
    /\ Len(ret.cand) = MAX_CID_SIZE
    /\ Random_cid_len(rgens[ret.inst]) = 0
    /\ ret.res = "Ok"

\* C7 as stated: every random generator that exists has cid_len in 1..20 and
\* generate_cid never runs with an out-of-range length.
C7_LenInOneToMax ==
    /\ \A i \in DOMAIN rgens : Random_cid_len(rgens[i]) \in 1..MAX_CID_SIZE
    /\ RandomCall("generate_cid") => ret.res # "Panic"

\* C7 as amended: with debug assertions every random generator that exists has
\* cid_len in 0..20; a generator has the length it was asked for; generate_cid
\* aborts exactly when that length exceeds 20, which only a build without
\* debug assertions lets through.
C7_LenBoundedWhenChecked ==
    /\ debug_assertions =>
          \A i \in DOMAIN rgens : Random_cid_len(rgens[i]) \in 0..MAX_CID_SIZE
    /\ \A i \in DOMAIN rgens : Random_cid_len(rgens[i]) = built.n
    /\ RandomCall("generate_cid") =>
          /\ ret.res = "Panic" <=> Random_cid_len(rgens[ret.inst]) > MAX_CID_SIZE
          /\ ret.res = "Panic" => ~debug_assertions

C7_Witness ==
    /\ debug_assertions
    /\ built.by = "new" /\ built.n > MAX_CID_SIZE
    /\ rgens = <<>>
    /\ ret.op = "new" /\ ret.res = "Panic"

\* cand is the 8-byte CID c with exactly one bit changed, in its last 5 bytes.
IsSignatureFlip(cand, c) ==
    /\ Len(cand) = Len(c)
    /\ \E p \in (Len(c) - 4)..Len(c) :
          /\ \A q \in 1..Len(c) : q # p => cand[q] = c[q]
          /\ XorByte(cand[p], c[p]) \in {1, 2, 4, 8, 16, 32, 64, 128}

\* C8: a CID issued by a hashed generator, with any single bit of its last 5
\* bytes flipped, is rejected by that generator.
C8_FlippedSignatureRejected ==
    HashedCall("validate") =>
        \A h \in issued :
            (h.by = ret.inst /\ IsSignatureFlip(ret.cand, h.cid))
                => ret.res = "Err"

C8_Witness ==
    /\ HashedCall("validate")
    /\ ret.res = "Err"
    /\ \E h \in issued :
          /\ h.by = ret.inst
          /\ ret.cand = FlipBit(h.cid, NONCE_LEN + SIGNATURE_LEN, 7)

\* The bytes of cand from offset 3 on are the 5 low-order bytes of the keyed
\* hash of key followed by cand's first 3 bytes.
SignatureMatches(key, cand) ==
    /\ Len(cand) >= NONCE_LEN
    /\ Tail_from(cand, NONCE_LEN)
         = LowOrder5(KeyedHash(key, SubSeq(cand, 1, NONCE_LEN)))

\* C9: validate of a hashed generator returns Ok if the candidate's bytes from
\* offset 3 on are the 5 low-order hash bytes, and Err(InvalidCid) otherwise.
C9_ValidateIffSignature ==
    HashedCall("validate") =>
        IF SignatureMatches(hgens[ret.inst].key, ret.cand)
        THEN ret.res = "Ok"
        ELSE ret.res = "Err"

\* C10: every CID generated by a hashed generator has 8 = cid_len() bytes:
\* the 3 bytes drawn from the random source, then the 5 low-order bytes of
\* the keyed hash of the key followed by those 3 bytes.
C10_GeneratedLayout ==
    HashedCall("generate_cid") =>
        /\ ret.res = "Ok"
        /\ Len(ret.out) = 8
        /\ Hashed_cid_len(hgens[ret.inst]) = Len(ret.out)
        /\ Len(ret.rand) = 3
        /\ SubSeq(ret.out, 1, 3) = ret.rand
        /\ SubSeq(ret.out, 4, 8)
             = LowOrder5(KeyedHash(hgens[ret.inst].key, ret.rand))

C10_Witness ==
    /\ HashedCall("generate_cid")
    /\ Cardinality(issued) = MaxIssued
    /\ lastSet[ret.inst] # None
    /\ [by |-> ret.inst, cid |-> ret.out] \in issued
====
